---- MODULE Spec2Model ----
(***************************************************************************)
(* The tkxml markup parser (src/tkxml/parser.py) as a state machine.       *)
(*                                                                         *)
(* A text is a sequence of one-character strings.  The recursive-descent   *)
(* parser is unrolled into a call stack of frames: one frame per active    *)
(* call of parse or get_attribute_value, each with its position in the     *)
(* function body.  The Python local `data` of the running call is the      *)
(* variable data: every call site passes `data` down and overwrites it     *)
(* with the remainder the callee returns.  steps counts the steps taken.   *)
(*                                                                         *)
(* The page registry of the controller (src/tkxml/controller.py and the    *)
(* Page widget of src/tkxml/custom_components.py) is a second state        *)
(* machine, ControllerSpec, on variables of its own.                       *)
(***************************************************************************)
EXTENDS Integers, Sequences, FiniteSets, TLC

VARIABLES src, input, data, stack, ret, status, err, steps

\* The page registry of a Controller (src/tkxml/controller.py): pages maps a
\* section to the dict of its pages (name -> Page object), active_pages maps
\* a section to the name of its active page or None.  Page objects are
\* numbered in the order of their construction (created counts them);
\* activated is the set of the Page objects that are laid out in their
\* parent (packed, gridded or placed).  last is what the last call did.
VARIABLES pages, active_pages, activated, created, last

pvars == <<src, input, data, stack, ret, status, err, steps>>
cvars == <<pages, active_pages, activated, created, last>>
vars  == <<pvars, cvars>>

\* An optional value: <<>> is Python's None, <<x>> the value x.
Opt(S) == {<<>>} \cup {<<x>> : x \in S}

NoCall == [op |-> "", err |-> "", section |-> <<>>, name |-> <<>>]

\* Controller(): self.pages = {}; self.active_pages = {}
Controller_init ==
    /\ pages = <<>>
    /\ active_pages = <<>>
    /\ activated = {}
    /\ created = 0
    /\ last = NoCall

----------------------------------------------------------------------------
(* Python string primitives used by the parser.                            *)

\* str.lstrip() / str.strip() with no argument strip these characters.
Whitespace == {" ", "\t", "\n", "\r", "\f"}

Min(S) == CHOOSE x \in S : \A y \in S : x <= y
Max(S) == CHOOSE x \in S : \A y \in S : x >= y

\* data[k:] for a 0-based k >= 0 (Python slicing never raises).
Drop(s, k) == IF k >= Len(s) THEN <<>> ELSE SubSeq(s, k + 1, Len(s))

\* data[:k]
Take(s, k) == IF k >= Len(s) THEN s ELSE SubSeq(s, 1, k)

lstrip(s) ==
    LET I == {i \in 1..Len(s) : s[i] \notin Whitespace}
    IN  IF I = {} THEN <<>> ELSE SubSeq(s, Min(I), Len(s))

rstrip(s) ==
    LET I == {i \in 1..Len(s) : s[i] \notin Whitespace}
    IN  IF I = {} THEN <<>> ELSE SubSeq(s, 1, Max(I))

strip(s) == rstrip(lstrip(s))

\* str.index(c) + 1 for a one-character c: the 1-based position of the first
\* occurrence, 0 when there is none (where Python raises ValueError).
index(s, c) ==
    LET I == {i \in 1..Len(s) : s[i] = c}
    IN  IF I = {} THEN 0 ELSE Min(I)

\* str.partition("="): <<before, separator, after>>; without a separator the
\* whole string is `before` and the other two are empty.
partition(s, c) ==
    LET k == index(s, c)
    IN  IF k = 0 THEN <<s, <<>>, <<>>>>
        ELSE <<SubSeq(s, 1, k - 1), <<c>>, Drop(s, k)>>

----------------------------------------------------------------------------
(* Attribute values: a String, a Number or a List, in one record shape.    *)
(* A Number is the decimal m * 10^e with m not divisible by 10 (0 is 0e0). *)

Str(s)     == [t |-> "String", s |-> s,    m |-> 0, e |-> 0, items |-> <<>>]
Num(m, e)  == [t |-> "Number", s |-> <<>>, m |-> m, e |-> e, items |-> <<>>]
Special(x) == [t |-> "Number", s |-> x,    m |-> 0, e |-> 0, items |-> <<>>]
List(xs)   == [t |-> "List",   s |-> <<>>, m |-> 0, e |-> 0, items |-> xs]
None       == [t |-> "None",   s |-> <<>>, m |-> 0, e |-> 0, items |-> <<>>]

----------------------------------------------------------------------------
(* float(value): Python's conversion of a token to a floating-point        *)
(* number.  The literal grammar is modelled in full (surrounding           *)
(* whitespace, sign, digits with single underscores between digits, one    *)
(* decimal point, exponent, inf / infinity / nan in any case); the value   *)
(* is kept as an exact decimal, which agrees with the binary double on     *)
(* equality for literals of up to 15 significant digits.                   *)

Digits == {"0", "1", "2", "3", "4", "5", "6", "7", "8", "9"}

DigitVal(c) ==
    CASE c = "0" -> 0 [] c = "1" -> 1 [] c = "2" -> 2 [] c = "3" -> 3
      [] c = "4" -> 4 [] c = "5" -> 5 [] c = "6" -> 6 [] c = "7" -> 7
      [] c = "8" -> 8 [] c = "9" -> 9

Lower(c) ==
    CASE c = "I" -> "i" [] c = "N" -> "n" [] c = "F" -> "f" [] c = "T" -> "t"
      [] c = "Y" -> "y" [] c = "A" -> "a" [] c = "E" -> "e" [] OTHER -> c

LowerAll(s) == [i \in 1..Len(s) |-> Lower(s[i])]

\* s without the occurrences of c.
RECURSIVE Without(_, _)
Without(s, c) ==
    IF s = <<>> THEN <<>>
    ELSE IF Head(s) = c THEN Without(Tail(s), c)
    ELSE <<Head(s)>> \o Without(Tail(s), c)

\* The number a string of digits denotes.
RECURSIVE IntOf(_)
IntOf(ds) ==
    IF ds = <<>> THEN 0
    ELSE 10 * IntOf(SubSeq(ds, 1, Len(ds) - 1)) + DigitVal(ds[Len(ds)])

AllDigits(s) == \A i \in 1..Len(s) : s[i] \in Digits

\* m * 10^e with the trailing zeros of m moved into e.
RECURSIVE Normal(_, _)
Normal(m, e) ==
    IF m = 0 THEN Num(0, 0)
    ELSE IF m % 10 = 0 THEN Normal(m \div 10, e + 1)
    ELSE Num(m, e)

NotFloat == [ok |-> FALSE, v |-> None]
IsFloat(v) == [ok |-> TRUE, v |-> v]

\* An unsigned decimal literal with its underscores already removed:
\* digits [. digits] [e [sign] digits], at least one mantissa digit.
Decimal(u, sign) ==
    LET l    == LowerAll(u)
        ke   == index(l, "e")
        mant == IF ke = 0 THEN l ELSE SubSeq(l, 1, ke - 1)
        ex   == IF ke = 0 THEN <<>> ELSE Drop(l, ke)
        exs  == IF ex # <<>> /\ Head(ex) \in {"+", "-"} THEN Tail(ex) ELSE ex
        exv  == IF ex # <<>> /\ Head(ex) = "-" THEN 0 - IntOf(exs) ELSE IntOf(exs)
        kd   == index(mant, ".")
        ip   == IF kd = 0 THEN mant ELSE SubSeq(mant, 1, kd - 1)
        fp   == IF kd = 0 THEN <<>> ELSE Drop(mant, kd)
    IN  IF /\ ke # 0 => (exs # <<>> /\ AllDigits(exs))
           /\ AllDigits(ip) /\ AllDigits(fp)
           /\ ip \o fp # <<>>
        THEN IsFloat(Normal(sign * IntOf(ip \o fp), exv - Len(fp)))
        ELSE NotFloat

float(value) ==
    LET t    == strip(value)
        neg  == t # <<>> /\ Head(t) = "-"
        u    == IF t # <<>> /\ Head(t) \in {"+", "-"} THEN Tail(t) ELSE t
        sign == IF neg THEN 0 - 1 ELSE 1
        l    == LowerAll(u)
        \* an underscore is legal only between two digits
        usOK == \A i \in 1..Len(u) :
                    u[i] = "_" => /\ 1 < i /\ i < Len(u)
                                  /\ u[i - 1] \in Digits /\ u[i + 1] \in Digits
    IN  IF l \in {<<"i", "n", "f">>, <<"i", "n", "f", "i", "n", "i", "t", "y">>}
        THEN IsFloat(Special(IF neg THEN <<"-", "i", "n", "f">> ELSE <<"i", "n", "f">>))
        ELSE IF l = <<"n", "a", "n">> THEN IsFloat(Special(l))
        ELSE IF ~usOK THEN NotFloat
        ELSE Decimal(Without(u, "_"), sign)

----------------------------------------------------------------------------
(* The two regular expressions of the parser.                              *)

\* The characters [^/}\]> ] excludes: tag names and bare tokens stop there,
\* whichever bracket dialect is active.
TokenStop == {"/", "}", "]", ">", " "}

\* TokenEnd with ">" left out of the excluded set.
TokenEnd_nogt(s) ==
    LET I == {i \in 1..Len(s) : s[i] \in {"/", "}", "]", " "}}
    IN  IF I = {} THEN Len(s) ELSE Min(I) - 1

\* re.match(r'[^/}\]> ]+', data).end(): the length of the longest prefix
\* without a stop character; 0 when re.match returns None (the + needs one
\* character).
TokenEnd(s) ==
    LET I == {i \in 1..Len(s) : s[i] \in TokenStop}
    IN  IF I = {} THEN Len(s) ELSE Min(I) - 1

Quotes == {"'", "\""}

\* QuoteCloses without the lookbehind (?<!\\): an escaped quote ends the value.
QuoteCloses_noescape(s) ==
    {j \in 2..Len(s) : /\ s[j] = s[1]
                       /\ \A i \in 2..(j - 1) : s[i] # "\n"}

\* The positions where r'(["\'])(.*?)(?<!\\)\1' can end its match on a
\* string that starts with a quote: the same quote character, not preceded
\* by a backslash, with no newline before it ('.' does not match "\n").
QuoteCloses(s) ==
    {j \in 2..Len(s) : /\ s[j] = s[1]
                       /\ s[j - 1] # "\\"
                       /\ \A i \in 2..(j - 1) : s[i] # "\n"}

\* match.end() of that expression (the lazy .*? takes the first position);
\* 0 when re.match returns None.
QuoteEnd(s) == IF QuoteCloses(s) = {} THEN 0 ELSE Min(QuoteCloses(s))

----------------------------------------------------------------------------
(* Nodes and call frames.                                                  *)

\* Node(): the fields a fresh node starts with.  attributes is a function
\* from keys to values, <<>> being the empty dict.
NewNode ==
    [t |-> "Node", name |-> <<>>, attributes |-> <<>>, children |-> <<>>,
     layout_manager |-> "pack"]

\* layout_manager_map with the "{" entry copied from "<" and its layout manager
\* left unchanged.
layout_manager_map_copied(open_tag) ==
    CASE open_tag = "<" -> [found |-> TRUE, layout_manager |-> "pack",  close_tag |-> ">"]
      [] open_tag = "{" -> [found |-> TRUE, layout_manager |-> "pack",  close_tag |-> "}"]
      [] open_tag = "[" -> [found |-> TRUE, layout_manager |-> "place", close_tag |-> "]"]
      [] OTHER          -> [found |-> FALSE, layout_manager |-> "", close_tag |-> ""]

\* layout_manager_map.get(open_tag): the entry of the bracket dialect, or
\* None (found = FALSE) for any other character.
layout_manager_map(open_tag) ==
    CASE open_tag = "<" -> [found |-> TRUE, layout_manager |-> "pack",  close_tag |-> ">"]
      [] open_tag = "{" -> [found |-> TRUE, layout_manager |-> "grid",  close_tag |-> "}"]
      [] open_tag = "[" -> [found |-> TRUE, layout_manager |-> "place", close_tag |-> "]"]
      [] OTHER          -> [found |-> FALSE, layout_manager |-> "", close_tag |-> ""]

\* node.attributes[key] = value: a later write to a key replaces the earlier.
\* SetItem that keeps the value a key already has.
SetItem_keepfirst(attributes, key, value) ==
    [k \in DOMAIN attributes \cup {key} |->
        IF k \in DOMAIN attributes THEN attributes[k] ELSE value]

SetItem(attributes, key, value) ==
    [k \in (DOMAIN attributes) \cup {key} |->
        IF k = key THEN value ELSE attributes[k]]

\* One active call.  fn is "parse" or "gav" (get_attribute_value), pc the
\* position in its body; node, close_tag and attribute_name are the locals
\* of parse, value the list under construction of get_attribute_value.
\* mark is a history field: the length of the remaining text when the loop
\* iteration the call is in began (-1 before its first loop).
Frame(fn) ==
    [fn |-> fn, pc |-> "enter", node |-> NewNode, close_tag |-> "",
     attribute_name |-> <<>>, value |-> <<>>, mark |-> 0 - 1]

top == stack[Len(stack)]

\* The stack with its top frame replaced.
SetTop(f) == [stack EXCEPT ![Len(stack)] = f]

At(fn, pc) == status = "running" /\ top.fn = fn /\ top.pc = pc

\* The exceptions the code can raise.
IndexError     == "IndexError: string index out of range"
TypeError      == "TypeError: cannot unpack non-iterable NoneType object"
AttributeError == "AttributeError: 'NoneType' object has no attribute 'end'"
NotFound       == "ValueError: substring not found"
Mismatched     == "ValueError: Mismatched quotes in attribute value"
InvalidFormat  == "ValueError: Invalid TKXML format"

\* The running call goes on with remaining text d and frames st.
Go(d, st) ==
    /\ data' = d
    /\ stack' = st
    /\ steps' = steps + 1
    /\ UNCHANGED <<src, input, ret, status, err>>
    /\ UNCHANGED cvars

\* An exception: nothing in the parser catches one, so the whole parse ends.
\* data and stack stay as they were in the call that raised.
Raise(e) ==
    /\ status' = "raised"
    /\ err' = e
    /\ steps' = steps + 1
    /\ UNCHANGED <<src, input, data, stack, ret>>
    /\ UNCHANGED cvars

\* return v, d: the running call ends and its caller, if any, goes on at the
\* position it called from; the outermost call's return ends the parse.
Return(v, d) ==
    /\ ret' = v
    /\ data' = d
    /\ stack' = SubSeq(stack, 1, Len(stack) - 1)
    /\ status' = IF Len(stack) = 1 THEN "returned" ELSE "running"
    /\ steps' = steps + 1
    /\ UNCHANGED <<src, input, err>>
    /\ UNCHANGED cvars

\* A call of fn(data) from the top frame, which waits at position back.
Call(fn, d, caller) ==
    Go(d, Append(SetTop(caller), Frame(fn)))

----------------------------------------------------------------------------
(* check_comment                                                           *)

\* data[:2] in ("//", "/*")
IsComment(d) == Take(d, 2) \in {<<"/", "/">>, <<"/", "*">>}

\* AfterComment without the .lstrip(): the line after a comment must start
\* at its first column.
AfterComment_nolstrip(d) == Drop(d, index(d, "\n"))

\* AfterComment that skips nothing.
AfterComment_stay(d) == d

\* data[data.index("\n") + 1:].lstrip()
AfterComment(d) == lstrip(Drop(d, index(d, "\n")))

----------------------------------------------------------------------------
(* parse                                                                   *)

\* node = Node(); data = data.lstrip(), the argument of check_comment
parse_enter ==
    /\ At("parse", "enter")
    /\ Go(lstrip(data), SetTop([top EXCEPT !.node = NewNode, !.pc = "comment"]))

\* check_comment(...): one comment per step, up to the next newline; a
\* comment with no newline after it makes str.index raise.
check_comment ==
    /\ At("parse", "comment")
    /\ IF ~IsComment(data) THEN Go(data, SetTop([top EXCEPT !.pc = "open"]))
       ELSE IF index(data, "\n") = 0 THEN Raise(NotFound)
       ELSE Go(AfterComment(data), stack)

\* open_tag = data[0]; the layout manager and close tag of its dialect;
\* data = data[1:]
parse_open_tag ==
    /\ At("parse", "open")
    /\ IF data = <<>> THEN Raise(IndexError)
       ELSE LET entry == layout_manager_map(data[1])
            IN  IF ~entry.found THEN Raise(TypeError)
                ELSE IF entry.layout_manager = "" THEN Raise(InvalidFormat)
                ELSE Go(Drop(data, 1),
                        SetTop([top EXCEPT
                                  !.node.layout_manager = entry.layout_manager,
                                  !.close_tag = entry.close_tag,
                                  !.pc = "closing"]))

\* AfterCloseTag at the last occurrence of the close tag: rindex.
AfterCloseTag_last(d, close_tag) ==
    Drop(d, Max({0} \cup {i \in 1..Len(d) : d[i] = close_tag}))

\* parse_closing_tag that compares the closing tag with the element it is to
\* close, name and dialect, and raises when they differ.
parse_closing_tag_matching ==
    /\ At("parse", "closing")
    /\ IF data = <<>> THEN Raise(IndexError)
       ELSE IF data[1] # "/" THEN Go(data, SetTop([top EXCEPT !.pc = "name"]))
       ELSE IF index(data, top.close_tag) = 0 THEN Raise(NotFound)
       ELSE IF /\ Len(stack) > 1
               /\ \/ stack[Len(stack) - 1].close_tag # top.close_tag
                  \/ stack[Len(stack) - 1].node.name
                         # SubSeq(data, 2, index(data, top.close_tag) - 1)
       THEN Raise("ValueError: closing tag does not match")
       ELSE Return(None, Drop(data, index(data, top.close_tag)))

\* data[data.index(close_tag) + 1:]
AfterCloseTag(d, close_tag) == Drop(d, index(d, close_tag))

\* if data[0] == "/": return None, the text after the close tag
parse_closing_tag ==
    /\ At("parse", "closing")
    /\ IF data = <<>> THEN Raise(IndexError)
       ELSE IF data[1] # "/" THEN Go(data, SetTop([top EXCEPT !.pc = "name"]))
       ELSE IF index(data, top.close_tag) = 0 THEN Raise(NotFound)
       ELSE Return(None, AfterCloseTag(data, top.close_tag))

\* node.name, data = data[:match.end()], data[match.end():]
parse_name ==
    /\ At("parse", "name")
    /\ IF TokenEnd(data) = 0 THEN Raise(AttributeError)
       ELSE Go(Drop(data, TokenEnd(data)),
               SetTop([top EXCEPT !.node.name = Take(data, TokenEnd(data)),
                                  !.pc = "attrs"]))

\* data[0] not in "/" + close_tag
MoreAttributes(d, close_tag) == d[1] \notin {"/", close_tag}

\* while data[0] not in "/" + close_tag: partition at "=", strip, and call
\* get_attribute_value on what follows
parse_attributes ==
    /\ At("parse", "attrs")
    /\ IF data = <<>> THEN Raise(IndexError)
       ELSE IF ~MoreAttributes(data, top.close_tag)
       THEN Go(data, SetTop([top EXCEPT !.pc = "tail"]))
       ELSE Call("gav", lstrip(partition(data, "=")[3]),
                 [top EXCEPT !.attribute_name = partition(data, "=")[1],
                             !.pc = "attr_ret", !.mark = Len(data)])

\* attribute_value, data = <the returned pair>;
\* node.attributes[attribute_name.strip()] = attribute_value;
\* data = data.lstrip()
parse_attribute_ret ==
    /\ At("parse", "attr_ret")
    /\ IF ret.t = "None" THEN Raise(TypeError)
       ELSE Go(lstrip(data),
               SetTop([top EXCEPT
                         !.node.attributes =
                             SetItem(@, strip(top.attribute_name), ret),
                         !.pc = "attrs"]))

\* data[2:], what a self-closing tag leaves
AfterSelfClose(d) == Drop(d, 2)

\* if data[0] == "/": return node, data[2:]; else data = data[1:]
parse_tail ==
    /\ At("parse", "tail")
    /\ IF data[1] = "/" THEN Return(top.node, AfterSelfClose(data))
       ELSE Go(Drop(data, 1), SetTop([top EXCEPT !.pc = "children"]))

\* children_append inserting at the front: insert(0, child).
children_prepend(children, child) == <<child>> \o children

\* node.children.append(child)
children_append(children, child) == Append(children, child)

\* child, data = parse(data): the call
parse_children ==
    /\ At("parse", "children")
    /\ Call("parse", data, [top EXCEPT !.pc = "child_ret", !.mark = Len(data)])

\* if child is None: return node, data; else node.children.append(child)
parse_child_ret ==
    /\ At("parse", "child_ret")
    /\ IF ret.t = "None" THEN Return(top.node, data)
       ELSE Go(data, SetTop([top EXCEPT !.node.children = children_append(@, ret),
                                        !.pc = "children"]))

----------------------------------------------------------------------------
(* get_attribute_value                                                     *)

\* data = data.lstrip(); match data[0]
gav_enter ==
    /\ At("gav", "enter")
    /\ IF lstrip(data) = <<>> THEN Raise(IndexError)
       ELSE Go(lstrip(data), SetTop([top EXCEPT !.pc = "match"]))

\* data[1:end_quote_index - 1]
QuotedValue(d) == Str(SubSeq(d, 2, QuoteEnd(d) - 1))

\* case "'" | '"'
gav_quoted ==
    /\ At("gav", "match")
    /\ data[1] \in Quotes
    /\ IF QuoteEnd(data) = 0 THEN Raise(Mismatched)
       ELSE Return(QuotedValue(data), Drop(data, QuoteEnd(data)))

\* case "[": data = data[1:]; value = []
gav_list_open ==
    /\ At("gav", "match")
    /\ data[1] = "["
    /\ Go(Drop(data, 1), SetTop([top EXCEPT !.value = <<>>, !.pc = "list"]))

\* while data[0] != "]": the call of get_attribute_value(data).  When the
\* loop ends the function runs off its end: it returns None, and the "]" is
\* never consumed.
gav_list ==
    /\ At("gav", "list")
    /\ IF data = <<>> THEN Raise(IndexError)
       ELSE IF data[1] # "]"
       THEN Call("gav", data, [top EXCEPT !.pc = "list_ret", !.mark = Len(data)])
       ELSE Return(None, data)

\* element, data = <the returned pair>; value.append(element)
gav_list_ret ==
    /\ At("gav", "list_ret")
    /\ IF ret.t = "None" THEN Raise(TypeError)
       ELSE Go(data, SetTop([top EXCEPT !.value = Append(@, ret),
                                        !.pc = "list"]))

\* TokenValue without the float() attempt: every bare token stays a string.
TokenValue_nofloat(value) == Str(value)

\* try: float(value) except ValueError: value
TokenValue(value) == IF float(value).ok THEN float(value).v ELSE Str(value)

\* case _
gav_token ==
    /\ At("gav", "match")
    /\ data[1] \notin Quotes \cup {"["}
    /\ IF TokenEnd(data) = 0 THEN Raise(AttributeError)
       ELSE Return(TokenValue(Take(data, TokenEnd(data))),
                   Drop(data, TokenEnd(data)))

----------------------------------------------------------------------------
(* The markup texts parse is run on.  A text is rendered from a            *)
(* description (src): an element tree with its attribute clauses, the      *)
(* text before and after it, and the way it is written.  Each clause       *)
(* carries the value the specification assigns to it, so that a claim      *)
(* compares what parse returns with what the description says.             *)

MaxAttrs  == 2
MaxKids   == 2
MaxDepth  == 2
MaxPre    == 2
MaxRawLen == 4

SeqsUpTo(S, n) == UNION {[1..k -> S] : k \in 0..n}

RECURSIVE Flatten(_)
Flatten(ss) == IF ss = <<>> THEN <<>> ELSE Head(ss) \o Flatten(Tail(ss))

W_frame  == <<"f", "r", "a", "m", "e">>
W_button == <<"b", "u", "t", "t", "o", "n">>
W_tail   == <<"t", "a", "i", "l">>
W_next   == <<" ", "<", "b", " ", "x", "=", "1", "/", ">">>

\* key=text, with the value the text denotes; kind "flag" has no "=".
Clause(key, text, val, kind) ==
    [key |-> key, text |-> text, val |-> val, kind |-> kind]

C_text == Clause(<<"t", "e", "x", "t">>, <<"'", "H", "i", "'">>, Str(<<"H", "i">>), "quoted")
C_say  == Clause(<<"s">>, <<"\"", "x", " ", "y", "\"">>, Str(<<"x", " ", "y">>), "quoted")
C_row  == Clause(<<"r", "o", "w">>, <<"0">>, Num(0, 0), "number")
C_w    == Clause(<<"w">>, <<"4", "2", "p", "x">>, Str(<<"4", "2", "p", "x">>), "token")
C_a(i) == Clause(<<"a">>, <<CHOOSE c \in Digits : DigitVal(c) = i>>, Normal(i, 0), "number")

GoodClauses == {C_text, C_say, C_row, C_w, C_a(1), C_a(2)}

\* 'it\'s ok' and "say \"hi\"": a quote escaped inside its own kind of quotes
C_esc1 == Clause(<<"t">>, <<"'", "i", "t", "\\", "'", "s", " ", "o", "k", "'">>, Str(<<"i", "t", "'", "s", " ", "o", "k">>), "escaped")
C_esc2 == Clause(<<"t">>, <<"\"", "a", "\\", "\"", "b", "\"">>, Str(<<"a", "\"", "b">>), "escaped")
\* bracketed lists
C_abc  == Clause(<<"v", "a", "l", "u", "e", "s">>, <<"[", "a", " ", "b", " ", "c", "]">>,
                 List(<<Str(<<"a">>), Str(<<"b">>), Str(<<"c">>)>>), "list")
C_123  == Clause(<<"v", "a", "l", "u", "e", "s">>, <<"[", "1", " ", "2", " ", "3", "]">>,
                 List(<<Num(1, 0), Num(2, 0), Num(3, 0)>>), "list")
C_nest == Clause(<<"v", "a", "l", "u", "e", "s">>, <<"[", "[", "a", "]", " ", "'", "q", "'", "]">>,
                 List(<<List(<<Str(<<"a">>)>>), Str(<<"q">>)>>), "list")
C_none == Clause(<<"v", "a", "l", "u", "e", "s">>, <<"[", "]">>, List(<<>>), "list")
\* a clause without "="
C_flag == Clause(<<"d", "i", "s", "a", "b", "l", "e", "d">>, <<>>, None, "flag")
\* an opening quote with no closing quote of its kind that is not escaped
C_unt1 == Clause(<<"t", "e", "x", "t">>, <<"'", "u", "n", "t", "e", "r", "m", "i", "n", "a", "t", "e", "d">>, None, "unterminated")
C_unt2 == Clause(<<"t", "e", "x", "t">>, <<"\"", "a", "b", "\\", "\"">>, None, "unterminated")
C_unt3 == Clause(<<"t", "e", "x", "t">>, <<"'", "a", "\"", "b">>, None, "unterminated")

OddClauses ==
    {C_esc1, C_esc2, C_abc, C_123, C_nest, C_none, C_flag, C_unt1, C_unt2, C_unt3}

\* bare tokens: numeric literals of several spellings, and tokens that start
\* like a number or hold a digit but are no literal
C_n42  == Clause(<<"n">>, <<"4", "2">>, Num(42, 0), "number")
C_neg  == Clause(<<"v">>, <<"-", "1", ".", "5">>, Num(0 - 15, 0 - 1), "number")
C_exp  == Clause(<<"e">>, <<"1", "e", "3">>, Num(1, 3), "number")
C_frac == Clause(<<"p">>, <<".", "5">>, Num(5, 0 - 1), "number")
C_hex  == Clause(<<"h">>, <<"0", "x", "1", "0">>, Str(<<"0", "x", "1", "0">>), "token")
C_ver  == Clause(<<"r">>, <<"1", ".", "2", ".", "3">>, Str(<<"1", ".", "2", ".", "3">>), "token")
C_word == Clause(<<"z">>, <<"a", "b", "c">>, Str(<<"a", "b", "c">>), "token")

TokenClauses == {C_n42, C_neg, C_exp, C_frac, C_w, C_hex, C_ver, C_word}

\* clauses of the keys a and b, some written with whitespace around the key
\* and the "="
C_as == Clause(<<"a">>, <<"'", "x", "'">>, Str(<<"x">>), "spaced")
C_bs == Clause(<<"b">>, <<"7">>, Num(7, 0), "spaced")

DupClauses == {C_a(1), C_a(2), C_as, C_bs}

\* a bare token with a "/" in it
C_file == Clause(<<"f", "i", "l", "e">>, <<"i", "m", "g", "/", "i", "c", "o", "n", ".", "p", "n", "g">>, Str(<<"i", "m", "g">>), "path")

OpenTags == {"<", "{", "["}

\* The close character a dialect's tags are written with.
CloseOf(d) == CASE d = "<" -> ">" [] d = "{" -> "}" [] d = "[" -> "]"

\* The layout manager the specification assigns to a dialect.
LayoutOf(d) == CASE d = "<" -> "pack" [] d = "{" -> "grid" [] d = "[" -> "place"

\* A close character of another dialect than d.
WrongClose(d) == CASE d = "<" -> "]" [] d = "{" -> ">" [] d = "[" -> "}"

\* An element: the text before it, its open character, name, clauses, the
\* way it ends ("self" />, "self_sp" with a space before the /, "self_gap"
\* with a space after the /, "self_wrong" with the close character of
\* another dialect after the /, "paired" with a closing tag, "paired_sp"
\* the same with a space before the close character of the opening tag,
\* "open" with the closing tag missing) and its children.
Elem(pre, d, name, attrs, form, kids) ==
    [pre |-> pre, d |-> d, name |-> name, attrs |-> attrs, form |-> form,
     kids |-> kids]

NoTree == Elem(<<>>, "<", <<>>, <<>>, "none", <<>>)

RenderClause(c) ==
    IF c.kind = "spaced"
    THEN <<" ", " ">> \o c.key \o <<"\t", " ", "=", " ">> \o c.text
    ELSE <<" ">> \o c.key \o (IF c.kind = "flag" THEN <<>> ELSE <<"=">> \o c.text)

RECURSIVE Render(_)
Render(el) ==
    IF el.form = "none" THEN <<>>
    ELSE el.pre \o <<el.d>> \o el.name
         \o Flatten([i \in 1..Len(el.attrs) |-> RenderClause(el.attrs[i])])
         \o (CASE el.form = "self"    -> <<"/", CloseOf(el.d)>>
               [] el.form = "self_sp" -> <<" ", "/", CloseOf(el.d)>>
               [] el.form = "self_gap" -> <<"/", " ", CloseOf(el.d)>>
               [] el.form = "self_wrong" -> <<"/", WrongClose(el.d)>>
               [] OTHER ->
                    (IF el.form = "paired_sp" THEN <<" ">> ELSE <<>>)
                    \o <<CloseOf(el.d)>>
                    \o Flatten([i \in 1..Len(el.kids) |-> Render(el.kids[i])])
                    \o (IF el.form \in {"paired", "paired_sp"}
                        THEN <<el.d, "/">> \o el.name \o <<CloseOf(el.d)>>
                        ELSE <<>>))

\* The text of a description.
Text(s) == Render(s.tree) \o s.post

----------------------------------------------------------------------------
(* The families of descriptions.                                           *)

Posts == {<<>>, W_tail, W_next}

\* Whitespace and comment lines, each comment running to its newline.
PreUnits == {<<" ">>, <<"\n">>, <<"\t">>, <<"/", "/", " ", "n", "o", "t", "e", "\n">>, <<"/", "*", " ", "x", " ", "*", "/", "\n">>}

Trivia == {Flatten(u) : u \in SeqsUpTo(PreUnits, MaxPre)}

Dialect(k) == CASE k % 3 = 0 -> "<" [] k % 3 = 1 -> "{" [] OTHER -> "["
DialectNo(d) == CASE d = "<" -> 0 [] d = "{" -> 1 [] d = "[" -> 2

\* n children <button a=1/>, <button a=2/>, ..., written in dialect kd or,
\* when mixed, in dialects that change from child to child starting after
\* kd; each preceded by gap.  With depth > 1 the first child is itself a
\* paired frame with such children.
RECURSIVE Kids(_, _, _, _, _)
Kids(kd, n, mixed, gap, depth) ==
    [i \in 1..n |->
        LET di == IF mixed THEN Dialect(DialectNo(kd) + i) ELSE kd
        IN  IF i = 1 /\ depth > 1
            THEN Elem(gap, di, W_frame, <<>>, "paired",
                      Kids(di, n, mixed, gap, depth - 1))
            ELSE Elem(gap, di, W_button, <<C_a(i)>>, "self", <<>>)]

Src(fam, tree, post) == [fam |-> fam, tree |-> tree, post |-> post]

\* parse(contents) is about to run on the text of description s.
Start(s) ==
    /\ src = s
    /\ input = Text(s)
    /\ data = Text(s)
    /\ stack = <<Frame("parse")>>
    /\ ret = None
    /\ status = "running"
    /\ err = ""
    /\ steps = 0
    /\ Controller_init

\* One element with up to MaxAttrs well-formed clauses.
LeafSources ==
    \E d \in OpenTags, attrs \in SeqsUpTo(GoodClauses, MaxAttrs),
       form \in {"self", "self_sp", "paired"}, post \in Posts :
        Start(Src("leaf", Elem(<<>>, d, W_button, attrs, form, <<>>), post))

Gaps == {<<>>, <<"\n", "/", "/", " ", "c", "\n", " ", " ">>}

\* A frame with children, nested up to MaxDepth, closed or left open.
NestSources ==
    \E d \in OpenTags, kd \in OpenTags, attrs \in {<<>>, <<C_a(1)>>},
       form \in {"paired", "open"}, n \in 0..MaxKids, mixed \in BOOLEAN,
       gap \in Gaps, depth \in 1..MaxDepth, post \in {<<>>, W_next} :
        Start(Src("nest", Elem(<<>>, d, W_frame, attrs, form,
                               Kids(kd, n, mixed, gap, depth)), post))

\* An element, self-closing or paired with up to one child, after whitespace
\* and comment lines.
PrefixSources ==
    \E pre \in Trivia, d \in OpenTags, attrs \in {<<>>, <<C_text>>},
       n \in 0..2, post \in {<<>>, W_tail} :
        Start(Src("prefix", Elem(pre, d, W_frame, attrs,
                                 IF n = 0 THEN "self" ELSE "paired",
                                 Kids(d, n - 1, FALSE, <<>>, 1)), post))

\* An element with one clause out of the ordinary among ordinary ones.
OddSources ==
    \E d \in OpenTags, before \in SeqsUpTo({C_row}, 1), c \in OddClauses,
       after \in SeqsUpTo({C_w}, 1), form \in {"self", "self_sp", "paired"},
       post \in Posts :
        Start(Src("odd", Elem(<<>>, d, <<"a">>, before \o <<c>> \o after,
                              form, <<>>), post))

\* An element with one or two bare-token clauses.
TokenSources ==
    \E d \in OpenTags, before \in SeqsUpTo(TokenClauses, 1), c \in TokenClauses,
       form \in {"self", "self_sp", "paired"}, post \in {<<>>, W_next} :
        Start(Src("token", Elem(<<>>, d, <<"a">>, before \o <<c>>, form, <<>>),
                  post))

\* An element with two or three clauses, in which a key occurs more than once.
DupSources ==
    \E d \in OpenTags, k \in 2..3, form \in {"self", "paired"},
       post \in {<<>>, W_tail} :
        \E attrs \in [1..k -> DupClauses] :
            Start(Src("dup", Elem(<<>>, d, <<"l", "a", "b", "e", "l">>, attrs, form, <<>>), post))

\* A self-closing element whose "/" is followed by the close character, by
\* a space or by the close character of another dialect, or that has a
\* bare token with a "/" in it.
SlashSources ==
    \E d \in OpenTags, name \in {W_button, <<"a">>},
       attrs \in {<<>>, <<C_row>>, <<C_file>>, <<C_row, C_file>>},
       form \in {"self", "self_gap", "self_wrong"},
       post \in {<<>>, <<"x">>, W_next} :
        Start(Src("slash", Elem(<<>>, d, name, attrs, form, <<>>), post))

\* An element without attributes, with or without a space after its name:
\* self-closing, or paired with up to MaxKids children <b/>.
SpaceSources ==
    \E d \in OpenTags, form \in {"self", "self_sp", "paired", "paired_sp"},
       n \in 0..MaxKids, post \in Posts :
        Start(Src("space",
                  Elem(<<>>, d, W_frame, <<>>, form,
                       IF form \in {"self", "self_sp"} THEN <<>>
                       ELSE [i \in 1..n |-> Elem(<<>>, d, <<"b">>, <<>>, "self", <<>>)]),
                  post))

\* The closing tag of dialect cd with name cname.
ClosingTag(cd, cname) == <<cd, "/">> \o cname \o <<CloseOf(cd)>>

\* The names written in closing tags: the element's, another, none, and one
\* with a close character of another dialect in it.
ClosingNames(cd) == {<<"a">>, <<"b">>, <<>>, <<"x", WrongClose(cd)>>}

\* What follows the closing tags; the last holds the close character once
\* more.
Rests(cd) == {<<>>, W_tail, <<"y", CloseOf(cd), "z">>}

\* levels elements left open one inside the other (the innermost named a,
\* with n children), followed by nc closing tags of any dialect and name
\* and by rest.
SrcClose(tree, inner, levels, nc, cd, closing, rest) ==
    [fam |-> "close", tree |-> tree, post |-> closing \o rest,
     inner |-> inner, levels |-> levels, nc |-> nc, cd |-> cd, rest |-> rest]

CloseSources ==
    \E d \in OpenTags, cd \in OpenTags, n \in 0..1, levels \in 1..2 :
      \E d0 \in (IF levels = 1 THEN {d} ELSE OpenTags), nc \in 1..levels,
         cname \in ClosingNames(cd), rest \in Rests(cd) :
        LET inner == Elem(<<>>, d, <<"a">>, <<>>, "open", Kids(d, n, FALSE, <<>>, 1))
            tree  == IF levels = 1 THEN inner
                     ELSE Elem(<<>>, d0, <<"o">>, <<>>, "open", <<inner>>)
            closing == ClosingTag(cd, cname)
                       \o (IF nc = 2 THEN ClosingTag(Dialect(DialectNo(cd) + 1), <<"z">>)
                           ELSE <<>>)
        IN  Start(SrcClose(tree, inner, levels, nc, cd, closing, rest))

\* A text that starts, after whitespace and comments, with a character that
\* opens no dialect.
BadLead == {"x", ">", "/", "=", "'", "0"}

BadLeadSources ==
    \E pre \in Trivia, c \in BadLead, d \in OpenTags :
        Start(Src("badlead", Elem(pre \o <<c>>, d, W_frame, <<>>, "self", <<>>),
                  <<>>))

\* Every text over a small alphabet, up to MaxRawLen characters.
RawAlphabet == {"<", ">", "/", "a", "=", " ", "'", "["}

RawSources ==
    \E t \in SeqsUpTo(RawAlphabet, MaxRawLen) : Start(Src("raw", NoTree, t))

----------------------------------------------------------------------------
(* The specification: parse(contents), as the driver calls it, on every    *)
(* text of the families above.                                             *)

Init ==
    \/ LeafSources
    \/ NestSources
    \/ PrefixSources
    \/ OddSources
    \/ TokenSources
    \/ DupSources
    \/ SlashSources
    \/ SpaceSources
    \/ CloseSources
    \/ BadLeadSources
    \/ RawSources

Next ==
    \/ parse_enter
    \/ check_comment
    \/ parse_open_tag
    \/ parse_closing_tag
    \/ parse_name
    \/ parse_attributes
    \/ parse_attribute_ret
    \/ parse_tail
    \/ parse_children
    \/ parse_child_ret
    \/ gav_enter
    \/ gav_quoted
    \/ gav_list_open
    \/ gav_list
    \/ gav_list_ret
    \/ gav_token

Spec == Init /\ [][Next]_vars

----------------------------------------------------------------------------
(* Pages and the controller: Page.__init__ (custom_components.py) and      *)
(* Controller.set_page (controller.py).  The interpreter runs one call at  *)
(* a time, so each call is one step.  Tk errors (an option Tk rejects)     *)
(* are not modelled: every layout and configure call succeeds.             *)

MaxPages == 4

Sections == {"main", "side"}

\* Page names; "" is a name Python takes for false.
Names == {"home", "about", ""}

\* What set_page can be asked for besides the above.
Strangers == {"nowhere"}

KeyError                   == "KeyError"
ValueError                 == "ValueError: page already exists."
MissingAttributeException  == "MissingAttributeException"
MissingControllerException == "MissingControllerException"

\* not x, for an optional name: None and "" are false.
Falsy(o) == o = <<>> \/ o = <<"">>

\* d[k] = v on a dict
DictSet(d, k, v) == [x \in DOMAIN d \cup {k} |-> IF x = k THEN v ELSE d[x]]

\* The Page objects of a section.
Values(section) == {section[n] : n \in DOMAIN section}

\* page.activate(): pack / grid / place lays the widget out.
activate(act, page) == act \cup {page}

\* page.deactivate() for each of ps: pack_forget / grid_forget /
\* place_forget takes the widget out.
deactivate(act, ps) == act \ ps

\* The controller as one value.
Ctl(p, ap, act) == [pages |-> p, active_pages |-> ap, activated |-> act]

\* set_page without the loop that deactivates the pages of the section.
set_page_nodeactivate(c, section_name, page_name) ==
    IF section_name \notin DOMAIN c.pages \/ DOMAIN c.pages[section_name] = {}
    THEN [err |-> KeyError, c |-> c]
    ELSE IF page_name \notin DOMAIN c.pages[section_name]
    THEN [err |-> KeyError, c |-> c]
    ELSE [err |-> "",
          c |-> Ctl(c.pages,
                    DictSet(c.active_pages, section_name, <<page_name>>),
                    activate(c.activated, c.pages[section_name][page_name]))]

\* Controller.set_page(section_name, page_name) on controller c: the error
\* raised ("" for none) and the controller afterwards.  pages.get gives
\* None for an unknown section, and an empty section dict is false too; a
\* Page object is always true, so only an unknown name fails the second
\* test.
set_page(c, section_name, page_name) ==
    IF section_name \notin DOMAIN c.pages \/ DOMAIN c.pages[section_name] = {}
    THEN [err |-> KeyError, c |-> c]
    ELSE IF page_name \notin DOMAIN c.pages[section_name]
    THEN [err |-> KeyError, c |-> c]
    ELSE LET selected_section == c.pages[section_name]
             selected_page    == selected_section[page_name]
         IN  [err |-> "",
              c |-> Ctl(c.pages,
                        DictSet(c.active_pages, section_name, <<page_name>>),
                        activate(deactivate(c.activated, Values(selected_section)),
                                 selected_page))]

\* The call ends: the controller is c, the call is recorded.
Ends(op, e, section, name, c) ==
    /\ pages' = c.pages
    /\ active_pages' = c.active_pages
    /\ activated' = c.activated
    /\ last' = [op |-> op, err |-> e, section |-> section, name |-> name]
    /\ UNCHANGED pvars

\* controller.set_page(section_name, page_name), called by the application
set_page_call ==
    \E section_name \in Sections \cup Strangers, page_name \in Names \cup Strangers :
        LET r == set_page(Ctl(pages, active_pages, activated), section_name, page_name)
        IN  /\ Ends("set_page", r.err, <<section_name>>, <<page_name>>, r.c)
            /\ UNCHANGED created

\* Page(parent, params, layout_manager, controller): name, section and
\* selected are what params holds (<<>> when the key is missing), controller
\* is None when has_controller is false.  The new Page object is self.
Page_init ==
    \E name \in Opt(Names), section \in Opt(Sections), selected \in BOOLEAN,
       has_controller \in BOOLEAN :
        /\ created < MaxPages
        /\ created' = created + 1
        /\ LET self == created + 1
               c0   == Ctl(pages, active_pages, activated)
           IN  IF name = <<>> \/ section = <<>>
               THEN Ends("Page", MissingAttributeException, section, name, c0)
               ELSE IF ~has_controller
               THEN Ends("Page", MissingControllerException, section, name, c0)
               ELSE
                 LET page_name    == name[1]
                     page_section == section[1]
                     \* if page_section not in self.controller.pages
                     c1 == IF page_section \notin DOMAIN pages
                           THEN Ctl(DictSet(pages, page_section, <<>>),
                                    DictSet(active_pages, page_section, <<>>),
                                    activated)
                           ELSE c0
                     \* self.controller.pages[page_section][page_name] = self
                     c2 == [c1 EXCEPT !.pages[page_section] =
                                          DictSet(@, page_name, self)]
                     r  == set_page(c2, page_section, page_name)
                 IN  IF page_name \in DOMAIN c1.pages[page_section]
                     THEN Ends("Page", ValueError, section, name, c1)
                     ELSE IF selected \/ Falsy(c1.active_pages[page_section])
                     THEN Ends("Page", r.err, section, name, r.c)
                     ELSE Ends("Page", "", section, name, c2)

\* No parse is running.
NoParse ==
    /\ src = Src("none", NoTree, <<>>)
    /\ input = <<>> /\ data = <<>> /\ stack = <<>>
    /\ ret = None /\ status = "idle" /\ err = "" /\ steps = 0

ControllerInit == Controller_init /\ NoParse

ControllerNext ==
    \/ Page_init
    \/ set_page_call

\* A fresh controller, then Page constructions and set_page calls in any
\* order.
ControllerSpec == ControllerInit /\ [][ControllerNext]_vars

----------------------------------------------------------------------------
(* What the specification says a description parses to.                    *)

Done == status # "running"

\* The attributes of a tag: one entry per key, the last clause of a key
\* giving its value.
ExpectAttrs(attrs) ==
    [k \in {attrs[i].key : i \in 1..Len(attrs)} |->
        attrs[Max({i \in 1..Len(attrs) : attrs[i].key = k})].val]

\* The node of an element: its name, its attributes, its children in the
\* order written, and the layout manager of its own open character.
RECURSIVE Expect(_)
Expect(el) ==
    [t |-> "Node", name |-> el.name, attributes |-> ExpectAttrs(el.attrs),
     children |-> [i \in 1..Len(el.kids) |-> Expect(el.kids[i])],
     layout_manager |-> LayoutOf(el.d)]

HasKind(attrs, kind) == \E i \in 1..Len(attrs) : attrs[i].kind = kind

\* An element written the way the code accepts: closed, and without a space
\* between a bare tag name and the "/".
Closed(el) ==
    \/ el.form \in {"self", "paired"}
    \/ el.form = "self_sp" /\ el.attrs # <<>>

----------------------------------------------------------------------------
\* C1: a self-closing pack element with a quoted attribute and a bare
\* numeric attribute, written with a space before the "/" and nothing after
\* it, parses to a node of that name with layout manager pack, the two
\* attributes (the quoted one a string, the bare one a number), no children
\* and empty remaining text.
C1_Shape ==
    /\ src.fam = "leaf" /\ src.tree.d = "<" /\ src.tree.form = "self_sp"
    /\ Len(src.tree.attrs) = 2
    /\ src.tree.attrs[1].kind = "quoted" /\ src.tree.attrs[2].kind = "number"
    /\ src.post = <<>>

C1_SelfClosingLeaf ==
    (C1_Shape /\ Done) =>
        /\ status = "returned" /\ ret.t = "Node"
        /\ ret.name = src.tree.name
        /\ ret.layout_manager = "pack"
        /\ ret.attributes = ExpectAttrs(src.tree.attrs)
        /\ ret.attributes[src.tree.attrs[1].key].t = "String"
        /\ ret.attributes[src.tree.attrs[2].key].t = "Number"
        /\ ret.children = <<>>
        /\ data = <<>>

\* <button text='Hi' row=0 /> has been parsed: text is "Hi", row is 0.0.
C1_Witness ==
    /\ C1_Shape /\ status = "returned"
    /\ input = <<"<", "b", "u", "t", "t", "o", "n", " ", "t", "e", "x", "t", "=", "'", "H", "i", "'", " ", "r", "o", "w", "=", "0", " ", "/", ">">>
    /\ ret.name = W_button
    /\ ret.attributes[<<"t", "e", "x", "t">>] = Str(<<"H", "i">>)
    /\ ret.attributes[<<"r", "o", "w">>] = Num(0, 0)

\* C2: a paired element whose body is n well-formed children and a closing
\* tag parses to one node whose children are those n nodes in the order
\* written, and the remaining text is what follows the closing tag.
C2_Shape == src.fam = "nest" /\ src.tree.form = "paired"

C2_ChildrenInOrder ==
    (C2_Shape /\ Done) =>
        /\ status = "returned" /\ ret.t = "Node"
        /\ Len(ret.children) = Len(src.tree.kids)
        /\ \A i \in 1..Len(src.tree.kids) :
               ret.children[i] = Expect(src.tree.kids[i])
        /\ data = src.post

\* <frame><button a=1/><button a=2/></frame> has been parsed: two children,
\* a = 1.0 then a = 2.0.
C2_Witness ==
    /\ C2_Shape /\ status = "returned"
    /\ input = <<"<", "f", "r", "a", "m", "e", ">", "<", "b", "u", "t", "t", "o", "n", " ", "a", "=", "1", "/", ">", "<", "b", "u", "t", "t", "o", "n", " ", "a", "=", "2", "/", ">", "<", "/", "f", "r", "a", "m", "e", ">">>
    /\ Len(ret.children) = 2
    /\ ret.children[1].attributes[<<"a">>] = Num(1, 0)
    /\ ret.children[2].attributes[<<"a">>] = Num(2, 0)

\* C3: an element's content (name, clauses, children) wrapped in < >, { }
\* or [ ] parses to the name, attributes and children of the content, which
\* do not depend on the wrapping, and to layout manager pack, grid or place
\* as its open character is <, { or [.
C3_Shape == src.fam \in {"leaf", "nest"} /\ Closed(src.tree)

C3_DialectSelectsLayout ==
    (C3_Shape /\ Done) =>
        /\ status = "returned" /\ ret.t = "Node"
        /\ ret.name = src.tree.name
        /\ ret.attributes = ExpectAttrs(src.tree.attrs)
        /\ ret.children = [i \in 1..Len(src.tree.kids) |-> Expect(src.tree.kids[i])]
        /\ ret.layout_manager =
               (CASE src.tree.d = "<" -> "pack"
                  [] src.tree.d = "{" -> "grid"
                  [] src.tree.d = "[" -> "place")

\* A [ ] element with an attribute and children of another dialect has been
\* parsed: it is place, its first child is what its own bracket says.
C3_Witness ==
    /\ C3_Shape /\ status = "returned"
    /\ src.tree.d = "[" /\ ret.layout_manager = "place"
    /\ src.tree.attrs # <<>>
    /\ Len(ret.children) = 2
    /\ src.tree.kids[1].d = "{" /\ ret.children[1].layout_manager = "grid"

\* C4: when the input ends before the closing tag of an open paired
\* element, parse fails with an error that is not an out-of-bounds access,
\* and returns no node.
C4_Shape ==
    /\ src.fam = "nest" /\ src.tree.form = "open"

C4_UnexpectedEndOfInput ==
    (C4_Shape /\ Done) => (status = "raised" /\ err # IndexError)

\* C5: a quoted value with an escaped quote of its own kind decodes to the
\* string without the backslash, and scanning goes on after its closing
\* quote.
C5_Shape == src.fam = "odd" /\ HasKind(src.tree.attrs, "escaped")

C5_EscapeConsumed ==
    (C5_Shape /\ Done) =>
        /\ status = "returned" /\ ret.t = "Node"
        /\ ret.attributes = ExpectAttrs(src.tree.attrs)
        /\ data = src.post

\* C6: a bracketed list value decodes to the list of its elements in order,
\* the "]" is consumed and attribute scanning goes on after it.
C6_Shape == src.fam = "odd" /\ HasKind(src.tree.attrs, "list")

C6_ListValue ==
    (C6_Shape /\ Done) =>
        /\ status = "returned" /\ ret.t = "Node"
        /\ ret.attributes = ExpectAttrs(src.tree.attrs)
        /\ data = src.post

\* C7: an attribute clause without "=" is a hard parse error, whatever
\* follows the tag: parse returns no node.
C7_Shape == src.fam = "odd" /\ HasKind(src.tree.attrs, "flag")

C7_MissingEqualsFails ==
    (C7_Shape /\ Done) => status = "raised"

\* C8: whitespace and comment lines before a well-formed element change
\* nothing: with any such prefix, and with none, parse returns the node of
\* the element and the text after the element.
C8_Shape == src.fam = "prefix"

C8_LeadingCommentsSkipped ==
    (C8_Shape /\ Done) =>
        /\ status = "returned" /\ ret.t = "Node"
        /\ ret = Expect(src.tree)
        /\ data = src.post

\* "// note\n<frame/>" has been parsed, and the comment skip has run.
C8_Witness ==
    /\ C8_Shape /\ status = "returned"
    /\ input = <<"/", "/", " ", "n", "o", "t", "e", "\n", "<", "f", "r", "a", "m", "e", "/", ">">>
    /\ ret = Expect(Elem(<<>>, "<", W_frame, <<>>, "self", <<>>))

\* C9: a first character (after whitespace and comments) that opens no
\* dialect makes parse fail with the 'Invalid TKXML format' error.
C9_Shape == src.fam = "badlead"

C9_InvalidFormat ==
    (C9_Shape /\ Done) => (status = "raised" /\ err = InvalidFormat)

\* C10: when get_attribute_value meets a value that opens with a quote and
\* the text holds no later quote of that kind that is not preceded by a
\* backslash, its next step raises the mismatched-quotes error: no string
\* value is returned and the parse ends there.
UnterminatedQuote(d) ==
    /\ d # <<>> /\ d[1] \in Quotes
    /\ ~ \E j \in 2..Len(d) : d[j] = d[1] /\ d[j - 1] # "\\"

C10_UnterminatedQuoteFails ==
    [][(At("gav", "match") /\ UnterminatedQuote(data)) =>
           (status' = "raised" /\ err' = Mismatched /\ ret' = ret)]_vars

\* <a text='unterminated/> has ended with the mismatched-quotes error.
C10_Witness ==
    /\ status = "raised" /\ err = Mismatched
    /\ top.fn = "gav" /\ UnterminatedQuote(data)
    /\ input = <<"<", "a", " ", "t", "e", "x", "t", "=", "'", "u", "n", "t", "e", "r", "m", "i", "n", "a", "t", "e", "d", "/", ">">>
    /\ ret = None

\* C11: a bare token that is a numeric literal (42, -1.5, 1e3, .5, 0, ...)
\* is returned as that number, a bare token that is none (42px, 0x10,
\* 1.2.3, abc) as the string of its characters, and in both cases the
\* remaining text is what followed the token's last character.
IsPrefix(p, s) == Len(p) <= Len(s) /\ Take(s, Len(p)) = p

\* data starts with the token of clause c, and the token ends there.
TokenAhead(c, d) ==
    /\ IsPrefix(c.text, d)
    /\ Len(d) > Len(c.text) => d[Len(c.text) + 1] \in {"/", ">", "}", "]", " "}

C11_TokenNumberOrString ==
    [][\A c \in TokenClauses \cup {C_row, C_a(1), C_a(2)} :
           (At("gav", "match") /\ TokenAhead(c, data)) =>
               /\ status' = "running"
               /\ ret' = c.val
               /\ ret'.t = (IF c.kind = "number" THEN "Number" ELSE "String")
               /\ data' = Drop(data, Len(c.text))]_vars

\* <a n=42 w=42px/> has been parsed: n is 42.0, w is the string 42px, and
\* nothing is left.
C11_Witness ==
    /\ src.fam = "token" /\ status = "returned"
    /\ input = <<"<", "a", " ", "n", "=", "4", "2", " ", "w", "=", "4", "2", "p", "x", "/", ">">>
    /\ ret.attributes[<<"n">>] = Num(42, 0)
    /\ ret.attributes[<<"w">>] = Str(<<"4", "2", "p", "x">>)
    /\ data = <<>>

\* C12: when a key occurs several times in one tag, written with or without
\* whitespace around it, the node has one entry per distinct key and the
\* entry of a key holds the value of its last clause.
C12_Shape == src.fam = "dup"

LastOf(attrs, k) == Max({i \in 1..Len(attrs) : attrs[i].key = k})

C12_LastOccurrenceWins ==
    (C12_Shape /\ Done) =>
        /\ status = "returned" /\ ret.t = "Node"
        /\ DOMAIN ret.attributes = {src.tree.attrs[i].key : i \in 1..Len(src.tree.attrs)}
        /\ \A k \in DOMAIN ret.attributes :
               ret.attributes[k] = src.tree.attrs[LastOf(src.tree.attrs, k)].val
        /\ data = src.post

\* <label a=1 a=2/> has been parsed: the one entry a is 2.0; and so has
\* the same with the second key written "  a\t = ".
C12_Witness ==
    /\ C12_Shape /\ status = "returned"
    /\ input \in {<<"<", "l", "a", "b", "e", "l", " ", "a", "=", "1", " ", "a", "=", "2", "/", ">">>,
                  <<"<", "l", "a", "b", "e", "l", " ", "a", "=", "1", " ", " ", "a", "\t", " ", "=", " ", "'", "x", "'", "/", ">">>}
    /\ DOMAIN ret.attributes = {<<"a">>}
    /\ ret.attributes[<<"a">>] \in {Num(2, 0), Str(<<"x">>)}

\* C13: on every text, parse ends by returning or by raising: a running
\* call always has a next step, and the number of steps taken (steps counts
\* them) never exceeds 3 * (length of the input + 2).  A step of the
\* comment skip leaves less text than it found; when an iteration of the
\* attribute scan, of the list-element scan or of the child-collection
\* loop ends, less text remains than when it began; no step ever puts text
\* back; and the remaining text is at every moment a suffix of the input.
IsSuffix(s, t) == Len(s) <= Len(t) /\ Drop(t, Len(t) - Len(s)) = s

\* The steps that end a loop iteration: the value of an attribute or of a
\* list element, or a child (or the closing tag), has come back.
IterationEnds ==
    \/ At("parse", "attr_ret")
    \/ At("parse", "child_ret")
    \/ At("gav", "list_ret")

\* A running call is at a position from which the code has a next step.
CanStep ==
    \/ top.fn = "parse" /\ top.pc \in {"enter", "comment", "open", "closing", "name",
                                       "attrs", "attr_ret", "tail", "children",
                                       "child_ret"}
    \/ top.fn = "gav" /\ top.pc \in {"enter", "list", "list_ret"}
    \/ top.fn = "gav" /\ top.pc = "match" /\ data # <<>>

C13_LoopsProgress ==
    /\ [][/\ IsSuffix(data', data)
          /\ (At("parse", "comment") /\ IsComment(data) /\ status' = "running")
                 => Len(data') < Len(data)
          /\ (IterationEnds /\ status' = "running")
                 => Len(data') < top.mark]_vars
    /\ [](IsSuffix(data, input))
    /\ [](status = "running" => CanStep)
    /\ [](steps <= 3 * Len(input) + 6)

\* A parse has returned after at least one iteration of the comment skip,
\* of the attribute scan and of the child-collection loop; another is in
\* the list-element scan after three elements.
C13_Witness ==
    \/ /\ status = "returned" /\ src.fam = "prefix"
       /\ src.tree.pre # <<>> /\ src.tree.attrs # <<>> /\ src.tree.kids # <<>>
       /\ IsSuffix(data, input) /\ data # <<>> /\ Len(data) < Len(input)
    \/ /\ At("gav", "list")
       /\ Len(top.value) = 3 /\ Len(data) < top.mark

\* C14: when the attribute scan has stopped at a "/", the step that follows
\* either raises or removes exactly two characters, the "/" and the close
\* character of the tag: the character it removes after the "/" is never
\* another one.
C14_SelfCloseConsumesExactly ==
    [][(At("parse", "tail") /\ data[1] = "/" /\ status' # "raised") =>
           /\ Len(data) >= 2 /\ data[2] = top.close_tag
           /\ data' = Drop(data, 2)]_vars

\* C15: an element without attributes written with a space between its
\* name and the "/" or the close character parses to the node and the
\* remaining text of the same element written without the space.
C15_Shape == src.fam = "space"

C15_SpaceAfterBareName ==
    (C15_Shape /\ Done) =>
        /\ status = "returned" /\ ret.t = "Node"
        /\ ret = Expect(src.tree)
        /\ data = src.post

\* C16: a parse call that finds "/" right after its open character returns
\* no node and the text after the first occurrence of its own close
\* character.  The call that receives "no node" from its child loop
\* returns its node with that same text, and nothing more: with two
\* elements open and one closing tag, the inner element is completed and
\* becomes a child of the outer one, whose loop goes on.
ClosesAt(d, c, k) ==
    /\ k \in 1..Len(d) /\ d[k] = c
    /\ \A j \in 1..(k - 1) : d[j] # c

Caller == SubSeq(stack, 1, Len(stack) - 1)

C16_ClosingTagEndsInnermostLoop ==
    /\ [][/\ (/\ At("parse", "closing") /\ data # <<>> /\ data[1] = "/"
               /\ \E k \in 1..Len(data) : ClosesAt(data, top.close_tag, k))
              => /\ ret' = None /\ stack' = Caller
                 /\ \E k \in 1..Len(data) :
                        ClosesAt(data, top.close_tag, k) /\ data' = Drop(data, k)
          /\ (At("parse", "child_ret") /\ ret.t = "None")
              => (ret' = top.node /\ ret'.t = "Node" /\ data' = data /\ stack' = Caller)
          /\ (At("parse", "child_ret") /\ ret.t = "Node")
              => (Len(stack') = Len(stack) /\ top'.pc = "children")]_vars
    /\ []((src.fam = "close" /\ Done /\ src.levels = 2) =>
            IF src.nc = 2
            THEN /\ status = "returned" /\ ret.t = "Node"
                 /\ ret.children = <<Expect(src.inner)>>
                 /\ data = src.rest
            ELSE /\ status = "raised" /\ Len(stack) = 2
                 /\ stack[1].node.children = <<Expect(src.inner)>>)

\* <o><a><button a=1/></a>{/z}tail has been parsed: </a> completed a,
\* {/z} completed o, and tail is left.
C16_Witness ==
    /\ src.fam = "close" /\ status = "returned"
    /\ input = <<"<", "o", ">", "<", "a", ">", "<", "b", "u", "t", "t", "o", "n", " ", "a", "=", "1", "/", ">", "<", "/", "a", ">", "{", "/", "z", "}", "t", "a", "i", "l">>
    /\ ret.name = <<"o">>
    /\ ret.children = <<Expect(src.inner)>>
    /\ ret.children[1].name = <<"a">> /\ Len(ret.children[1].children) = 1
    /\ data = W_tail

\* C17: an open element followed by a closing tag of any name and any
\* dialect is completed without error, with the children it has; the
\* closing tag ends at the first close character of its own dialect, so
\* the remaining text is what follows that character.
C17_Shape == src.fam = "close" /\ src.levels = 1

C17_ClosingTagNotCompared ==
    (C17_Shape /\ Done) =>
        /\ status = "returned" /\ ret.t = "Node"
        /\ ret.name = <<"a">>
        /\ ret.layout_manager = LayoutOf(src.tree.d)
        /\ ret.children = [i \in 1..Len(src.tree.kids) |-> Expect(src.tree.kids[i])]
        /\ data = src.rest

\* <a>{/x>}y}z has been parsed: node a, and y}z is left.
C17_Witness ==
    /\ C17_Shape /\ status = "returned"
    /\ input = <<"<", "a", ">", "{", "/", "x", ">", "}", "y", "}", "z">>
    /\ ret.name = <<"a">> /\ ret.layout_manager = "pack"
    /\ data = <<"y", "}", "z">>

\* C18: after any sequence of Page constructions and set_page calls, in
\* every section the active page is None or a registered name, at most one
\* page of the section is activated and it is the one active_pages names;
\* and a set_page call that raises KeyError and a Page construction that
\* raises for a duplicate name leave active_pages and the activated pages
\* as they were.
ActiveOf(s) ==
    IF active_pages[s] = <<>> THEN {} ELSE {pages[s][active_pages[s][1]]}

====
